---- MODULE Spec2Model ----
(***************************************************************************)
(* A state-machine model of app.py, the Flask application "ReViews":       *)
(* Google OAuth login, the session-gated pages and JSON API, geocoding     *)
(* with Nominatim, image upload to Cloudinary and the MongoDB collection   *)
(* of reviews.  One action per route handler; each action is the whole     *)
(* handler, run to its response.                                           *)
(***************************************************************************)
EXTENDS Integers, Sequences, FiniteSets, TLC

VARIABLES
    session,             \* Flask's session dict: a function on {} or {"user"}
    reviews_collection,  \* the documents of db['reviews'], in insertion order
    request,             \* the last request, as far as its handler read it
    response,            \* the response to the last request: route, status, body
    effects              \* what the last request did: handler run, calls made

vars == <<session, reviews_collection, request, response, effects>>

(***************************************************************************)
(* Bounds of the model.                                                    *)
(***************************************************************************)
MaxReviews == 2   \* documents the collection may hold
MaxFiles == 2     \* file parts of one multipart submission

(***************************************************************************)
(* Python values.                                                          *)
(***************************************************************************)
None == "<None>"                  \* Python's None; no form string equals it
EmptyDict == [k \in {} |-> None]  \* {}

\* d.get(k, default)
Get(d, k, default) == IF k \in DOMAIN d THEN d[k] ELSE default

\* the dict d with d[k] = v set (added or overwritten)
SetItem(d, k, v) == [x \in DOMAIN d \cup {k} |-> IF x = k THEN v ELSE d[x]]

\* the dict d after "del d[k]"
DelItem(d, k) == [x \in DOMAIN d \ {k} |-> d[x]]

\* Strings the code parses are sequences of one-character strings.
Digits == <<"0", "1", "2", "3", "4", "5", "6", "7", "8", "9">>

IsDigit(c) == \E i \in 1..10 : Digits[i] = c

DigitVal(c) == (CHOOSE i \in 1..10 : Digits[i] = c) - 1

RECURSIVE DecVal(_)
DecVal(s) == IF s = <<>> THEN 0
             ELSE 10 * DecVal(SubSeq(s, 1, Len(s) - 1)) + DigitVal(s[Len(s)])

AllDigits(s) == s # <<>> /\ \A i \in 1..Len(s) : IsDigit(s[i])

\* int(s) for a str s: an optional sign and decimal digits; anything else
\* raises ValueError (ok = FALSE).
IntOfStr(s) ==
    LET signed == s # <<>> /\ s[1] \in {"-", "+"}
        body == IF signed THEN Tail(s) ELSE s
    IN  IF AllDigits(body)
        THEN [ok |-> TRUE,
              val |-> IF signed /\ s[1] = "-" THEN 0 - DecVal(body) ELSE DecVal(body)]
        ELSE [ok |-> FALSE, val |-> 0]

\* float(s) for the coordinate strings of the geocoder, "[-]d+.d", in tenths
\* of a degree.
FloatOfStr(s) ==
    LET neg == s # <<>> /\ s[1] = "-"
        body == IF neg THEN Tail(s) ELSE s
        n == Len(body)
        mag == 10 * DecVal(SubSeq(body, 1, n - 2)) + DigitVal(body[n])
    IN  IF neg THEN 0 - mag ELSE mag

(***************************************************************************)
(* bson.ObjectId: twelve bytes; str() writes them as 24 hex digits and     *)
(* ObjectId(s) reads 24 hex digits back, raising InvalidId otherwise.      *)
(***************************************************************************)
OidBytes == 12

HexChars == <<"0", "1", "2", "3", "4", "5", "6", "7",
              "8", "9", "a", "b", "c", "d", "e", "f">>

UpperHex == <<"0", "1", "2", "3", "4", "5", "6", "7",
              "8", "9", "A", "B", "C", "D", "E", "F">>

IsHex(c) == \E i \in 1..16 : HexChars[i] = c \/ UpperHex[i] = c

HexVal(c) == (CHOOSE i \in 1..16 : HexChars[i] = c \/ UpperHex[i] = c) - 1

\* str(oid)
StrOfObjectId(oid) ==
    [i \in 1..(2 * Len(oid)) |->
        IF i % 2 = 1 THEN HexChars[(oid[(i + 1) \div 2] \div 16) + 1]
                     ELSE HexChars[(oid[i \div 2] % 16) + 1]]

\* ObjectId.is_valid(s) for a str s
ObjectIdValid(s) == Len(s) = 2 * OidBytes /\ \A i \in 1..Len(s) : IsHex(s[i])

\* ObjectId(s) for a valid s
ObjectIdOfStr(s) ==
    [i \in 1..OidBytes |-> 16 * HexVal(s[2 * i - 1]) + HexVal(s[2 * i])]

\* The n-th identifier the driver generates: the counter in the low bytes.
ObjectIdNumber(n) ==
    [i \in 1..OidBytes |-> IF i = OidBytes THEN n % 256
                           ELSE IF i = OidBytes - 1 THEN (n \div 256) % 256
                           ELSE 0]

(***************************************************************************)
(* What comes in from outside: the identity provider's answer to           *)
(* /authorize, the submitted form and files, the geocoder's reply, the     *)
(* media host's failures, the wall clock.                                  *)
(***************************************************************************)

\* google.authorize_access_token(): it raises (state mismatch, access denied,
\* failed exchange) or returns the token dict.
AliceToken == [userinfo |-> [email |-> "alice@example.com", name |-> "Alice"],
               access_token |-> "token-alice",
               expires_at |-> 5000, expires_in |-> 3600]

BobToken == [userinfo |-> [email |-> "bob@example.com"],
             access_token |-> "token-bob"]

NoEmailToken == [userinfo |-> [name |-> "Carol"], access_token |-> "token-carol",
                 expires_at |-> 5000, expires_in |-> 3600]

NoProfileToken == [access_token |-> "token-dave",
                   expires_at |-> 5000, expires_in |-> 3600]

ExchangeFailed == [kind |-> "error"]

Exchanged(token) == [kind |-> "token", token |-> token]

ProviderReplies ==
    {ExchangeFailed} \cup
    {Exchanged(t) : t \in {AliceToken, BobToken, NoEmailToken, NoProfileToken}}

\* One user only.
AliceReplies == {Exchanged(AliceToken)}

\* request.form of POST /api/reviews: any subset of the three fields.
FormFields == {"establishment_name", "address", "rating"}

RatingStrings == {<<"5">>, <<"1", "0">>, <<"a", "b", "c">>, <<>>}

MkForm(fields, rating) ==
    [k \in fields |-> CASE k = "establishment_name" -> "Cafe Sol"
                        [] k = "address" -> "Plaza Mayor, Madrid"
                        [] k = "rating" -> rating]

Forms == {MkForm(fields, r) : fields \in SUBSET FormFields, r \in RatingStrings}

ValidForm == MkForm(FormFields, <<"5">>)

\* request.files.getlist('images'): the i-th part is either an empty file
\* input (no filename) or the i-th photo.
EmptyFile == [filename |-> <<>>, content |-> <<>>]

File(i) == [filename |-> <<"photo", i>>, content |-> <<"img", i>>]

FileLists ==
    UNION {{[i \in 1..n |-> IF i \in chosen THEN File(i) ELSE EmptyFile] :
                chosen \in SUBSET (1..n)} : n \in 0..MaxFiles}

\* bool(file_storage): a FileStorage is truthy when it has a filename
Truthy(f) == f.filename # <<>>

\* A submission: the form and the files of one POST /api/reviews.
Submission(form, files) == [form |-> form, files |-> files]

\* Every form, sent without files.
FormSubmissions == {Submission(f, <<>>) : f \in Forms}

\* The complete form, sent with every list of files.
FileSubmissions == {Submission(ValidForm, fs) : fs \in FileLists}

\* The complete form, sent without files and with one photo.
PlainSubmissions == {Submission(ValidForm, <<>>), Submission(ValidForm, <<File(1)>>)}

\* The geocoder: requests.get(...) with response.json() raises (network
\* failure, a body that is not JSON), or yields the list of matches (limit=1).
PlazaMayor == [lat |-> <<"4", "0", ".", "4">>, lon |-> <<"-", "3", ".", "7">>,
               display_name |-> "Plaza Mayor, Madrid"]

Unnamed == [lat |-> <<"4", "0", ".", "4">>, lon |-> <<"-", "3", ".", "7">>]

GeocoderFailed == [kind |-> "error"]

Matches(results) == [kind |-> "json", results |-> results]

GeocoderReplies ==
    {GeocoderFailed, Matches(<<>>), Matches(<<PlazaMayor>>), Matches(<<Unnamed>>)}

\* request.args of GET /api/geocode
GeocodeArgs == {EmptyDict, [address |-> ""], [address |-> "Plaza Mayor, Madrid"]}

\* datetime.utcnow()
Clock == {1700000000}

\* str(x) as an f-string formats the address
Str(x) == IF x = None THEN "None" ELSE x

\* The well-formed and malformed identifiers a client may put in /review/<id>.
ReviewIds ==
    {StrOfObjectId(ObjectIdNumber(n)) : n \in 1..(MaxReviews + 1)} \cup
    {<<"1">>,
     [i \in 1..(2 * OidBytes) |-> "z"],
     [i \in 1..(2 * OidBytes) |-> IF i = 2 * OidBytes THEN "1" ELSE "0"] \o <<"0">>,
     [i \in 1..(2 * OidBytes) |-> IF i = 2 * OidBytes THEN "A" ELSE "0"]}

(***************************************************************************)
(* Responses and the record of what a request did.                         *)
(***************************************************************************)
Redirect(target) == [kind |-> "redirect", location |-> target]

Template(name, context) == [kind |-> "html", template |-> name, context |-> context]

Json(data) == [kind |-> "json", data |-> data]

Text(message) == [kind |-> "text", text |-> message]

\* An exception no handler catches: Flask answers 500.
Unhandled(error) == [kind |-> "exception", error |-> error]

Response(route, status, body) == [route |-> route, status |-> status, body |-> body]

NoEffects == [handler |-> FALSE, geocoder |-> <<>>, uploads |-> <<>>,
              stored |-> <<>>, destroyed |-> <<>>, finds |-> 0, inserts |-> 0]

Ran == [NoEffects EXCEPT !.handler = TRUE]

Init ==
    /\ session = EmptyDict
    /\ reviews_collection = <<>>
    /\ request = [route |-> "start"]
    /\ response = Response("start", 0, Text(""))
    /\ effects = NoEffects

(***************************************************************************)
(* The routes that take no session.                                        *)
(***************************************************************************)

\* One request answered: what was read of it, the response, what it did.
Answer(req, resp, eff) ==
    /\ request' = req
    /\ response' = resp
    /\ effects' = eff

\* 'user' in session
LoggedIn(s) == "user" \in DOMAIN s

index ==
    /\ Answer([route |-> "index"],
              Response("index", 200,
                       Template("index.html", [user |-> Get(session, "user", None)])),
              Ran)
    /\ UNCHANGED <<session, reviews_collection>>

login ==
    /\ Answer([route |-> "login"],
              Response("login", 302, Redirect("https://accounts.google.com/")),
              Ran)
    /\ UNCHANGED <<session, reviews_collection>>

\* The dict authorize() stores under session['user'].
UserOfToken(token) ==
    [email |-> token.userinfo.email,
     name |-> Get(token.userinfo, "name", ""),
     token |-> token.access_token,
     token_issued_at |-> Get(token, "expires_at", 0) - Get(token, "expires_in", 3600),
     token_expires_at |-> Get(token, "expires_at", 0)]

\* The exception authorize() ends with, "" when it ends with none.
AuthorizeError(reply) ==
    IF reply.kind = "error" THEN "OAuthError"
    ELSE IF "userinfo" \notin DOMAIN reply.token THEN "TypeError"
    ELSE IF "email" \notin DOMAIN reply.token.userinfo THEN "KeyError"
    ELSE IF "access_token" \notin DOMAIN reply.token THEN "KeyError"
    ELSE ""

authorize(reply) ==
    LET error == AuthorizeError(reply)
        req == [route |-> "authorize", reply |-> reply]
    IN  IF error # ""
        THEN /\ Answer(req, Response("authorize", 500, Unhandled(error)), Ran)
             /\ UNCHANGED <<session, reviews_collection>>
        ELSE /\ session' = SetItem(session, "user", UserOfToken(reply.token))
             /\ Answer(req, Response("authorize", 302, Redirect("/reviews")), Ran)
             /\ UNCHANGED reviews_collection

\* session.pop('user', None)
PopUser(s) == DelItem(s, "user")

logout ==
    /\ session' = PopUser(session)
    /\ Answer([route |-> "logout"], Response("logout", 302, Redirect("/")), Ran)
    /\ UNCHANGED reviews_collection

(***************************************************************************)
(* login_required: without a user in the session the request is answered   *)
(* with a redirect to the landing page and the handler is not called.      *)
(***************************************************************************)
\* login_required without its check: the handler is always called.
login_optional(route, handler) == handler

login_required(route, handler) ==
    IF ~LoggedIn(session)
    THEN /\ Answer([route |-> route], Response(route, 302, Redirect("/")), NoEffects)
         /\ UNCHANGED <<session, reviews_collection>>
    ELSE handler

\* A page that renders a template with user=session['user'].
Page(route, name) ==
    /\ IF LoggedIn(session)
       THEN Answer([route |-> route],
                   Response(route, 200, Template(name, [user |-> session.user])), Ran)
       ELSE Answer([route |-> route], Response(route, 500, Unhandled("KeyError")), Ran)
    /\ UNCHANGED <<session, reviews_collection>>

reviews == login_required("reviews", Page("reviews", "reviews.html"))

create_review == login_required("create_review", Page("create_review", "create_review.html"))

(***************************************************************************)
(* The collection.                                                         *)
(***************************************************************************)

\* The identifier insert_one gives the next document: one no document of the
\* collection has (documents are never removed, so the count is a fresh one).
NewObjectId(coll) == ObjectIdNumber(Len(coll) + 1)

\* A write that replaces the newest document instead of adding one.
replace_newest(coll, doc) ==
    IF coll = <<>> THEN <<SetItem(doc, "_id", ObjectIdNumber(1))>>
    ELSE [coll EXCEPT ![Len(coll)] = SetItem(doc, "_id", coll[Len(coll)]["_id"])]

\* reviews_collection.insert_one(doc): the document is stored with its _id.
insert_one(coll, doc) == Append(coll, SetItem(doc, "_id", NewObjectId(coll)))

\* reviews_collection.find_one({'_id': oid}): the positions of the matches
FindById(coll, oid) == {i \in 1..Len(coll) : coll[i]["_id"] = oid}

\* datetime.isoformat()
IsoFormat(t) == <<"iso-8601", t>>

\* The loop body without its "del review['_id']".
ReKeyedKeepingId(review) ==
    LET keyed == SetItem(review, "id", StrOfObjectId(review["_id"]))
    IN  IF "created_at" \in DOMAIN keyed
        THEN SetItem(keyed, "created_at", IsoFormat(keyed["created_at"]))
        ELSE keyed

\* get_reviews' loop body: id added, _id deleted, created_at formatted.
ReKeyed(review) ==
    LET keyed == DelItem(SetItem(review, "id", StrOfObjectId(review["_id"])), "_id")
    IN  IF "created_at" \in DOMAIN keyed
        THEN SetItem(keyed, "created_at", IsoFormat(keyed["created_at"]))
        ELSE keyed

get_reviews_handler ==
    /\ Answer([route |-> "get_reviews"],
              Response("get_reviews", 200,
                       Json([i \in 1..Len(reviews_collection) |->
                                ReKeyed(reviews_collection[i])])),
              [Ran EXCEPT !.finds = 1])
    /\ UNCHANGED <<session, reviews_collection>>

get_reviews == login_required("get_reviews", get_reviews_handler)

review_detail_handler(review_id) ==
    LET req == [route |-> "review_detail", review_id |-> review_id]
    IN  /\ IF ~ObjectIdValid(review_id)
           THEN \* ObjectId(review_id) raises bson.errors.InvalidId
                Answer(req, Response("review_detail", 500, Unhandled("InvalidId")), Ran)
           ELSE LET found == FindById(reviews_collection, ObjectIdOfStr(review_id))
                    eff == [Ran EXCEPT !.finds = 1]
                IN  IF found = {}
                    THEN Answer(req, Response("review_detail", 404,
                                              Text("Reseña no encontrada")), eff)
                    ELSE LET review == reviews_collection[CHOOSE i \in found : TRUE]
                             shown == SetItem(review, "id", StrOfObjectId(review["_id"]))
                         IN  IF LoggedIn(session)
                             THEN Answer(req,
                                         Response("review_detail", 200,
                                                  Template("review_detail.html",
                                                           [user |-> session.user,
                                                            review |-> shown])),
                                         eff)
                             ELSE Answer(req, Response("review_detail", 500,
                                                       Unhandled("KeyError")), eff)
        /\ UNCHANGED <<session, reviews_collection>>

review_detail(review_id) ==
    login_required("review_detail", review_detail_handler(review_id))

(***************************************************************************)
(* POST /api/reviews.                                                      *)
(***************************************************************************)

\* cloudinary.uploader.upload(file): the host's answer for a stored file
upload(f) == [secure_url |-> <<"https://res.cloudinary.com/", f.content>>]

\* image_urls.insert(0, url)
PrependUrl(image_urls, url) == <<url>> \o image_urls

\* image_urls.append(url)
AppendUrl(image_urls, url) == Append(image_urls, url)

\* The upload loop over request.files.getlist('images'); the failAt-th call
\* of upload raises (failAt = 0: none does).  calls counts the calls made,
\* stored lists what the host has stored.
RECURSIVE UploadLoop(_, _, _)
UploadLoop(files, failAt, acc) ==
    IF files = <<>> THEN acc
    ELSE IF ~Truthy(Head(files)) THEN UploadLoop(Tail(files), failAt, acc)
    ELSE IF Len(acc.calls) + 1 = failAt
         THEN [acc EXCEPT !.calls = Append(@, Head(files)), !.raised = TRUE]
         ELSE UploadLoop(Tail(files), failAt,
                         [acc EXCEPT !.calls = Append(@, Head(files)),
                                     !.stored = Append(@, Head(files).content),
                                     !.image_urls =
                                         AppendUrl(@, upload(Head(files)).secure_url)])

\* The loop with the failing upload caught: it ends there and raises nothing.
UploadImagesCaught(files, failAt) ==
    [UploadLoop(files, failAt,
                [image_urls |-> <<>>, calls |-> <<>>, stored |-> <<>>,
                 raised |-> FALSE]) EXCEPT !.raised = FALSE]

UploadImages(files, failAt) ==
    UploadLoop(files, failAt,
               [image_urls |-> <<>>, calls |-> <<>>, stored |-> <<>>, raised |-> FALSE])

\* int(data.get('rating', 0))
RatingOf(form) ==
    IF "rating" \in DOMAIN form THEN IntOfStr(form.rating) ELSE [ok |-> TRUE, val |-> 0]

\* The dict add_review builds for insert_one.
ReviewData(form, rating, geo_data, image_urls, user, now) ==
    [establishment_name |-> Get(form, "establishment_name", None),
     address |-> Get(form, "address", None),
     latitude |-> FloatOfStr(geo_data.lat),
     longitude |-> FloatOfStr(geo_data.lon),
     rating |-> rating,
     author_email |-> user.email,
     author_name |-> user.name,
     token |-> user.token,
     token_issued_at |-> user.token_issued_at,
     token_expires_at |-> user.token_expires_at,
     images |-> image_urls,
     created_at |-> now]

\* add_review's last lines: the inserted document as the response reports it
Reported(inserted) ==
    DelItem(SetItem(inserted, "id", StrOfObjectId(inserted["_id"])), "_id")

\* The 404 sent only after the upload loop has run over the files.
NotFoundAfterUploads(req, asked) ==
    LET up == UploadImages(req.files, 0)
    IN  /\ Answer(req,
                  Response("add_review", 404, Json([error |-> "Dirección no encontrada"])),
                  [asked EXCEPT !.uploads = up.calls, !.stored = up.stored])
        /\ UNCHANGED <<session, reviews_collection>>

\* "if not response.json()": the 404 of add_review, sent right after the
\* geocoder's reply.
AddressNotFound(req, asked) ==
    /\ Answer(req,
              Response("add_review", 404, Json([error |-> "Dirección no encontrada"])),
              asked)
    /\ UNCHANGED <<session, reviews_collection>>

add_review_handler(sub, geo, failAt, now) ==
    LET form == sub.form
        req == [route |-> "add_review", form |-> form, files |-> sub.files]
        rating == RatingOf(form)
        query == Str(Get(form, "address", None))
        asked == [Ran EXCEPT !.geocoder = <<[query |-> query, reply |-> geo]>>]
        up == UploadImages(sub.files, failAt)
        sent == [asked EXCEPT !.uploads = up.calls, !.stored = up.stored]
        fails(eff, error) ==
            /\ Answer(req, Response("add_review", 500, Unhandled(error)), eff)
            /\ UNCHANGED <<session, reviews_collection>>
    IN  IF ~rating.ok THEN fails(Ran, "ValueError")
        ELSE IF geo.kind = "error" THEN fails(asked, "RequestException")
        ELSE IF geo.results = <<>> THEN AddressNotFound(req, asked)
        ELSE IF up.raised THEN fails(sent, "cloudinary.exceptions.Error")
        ELSE IF ~LoggedIn(session) THEN fails(sent, "KeyError")
        ELSE LET review_data == ReviewData(form, rating.val, geo.results[1],
                                           up.image_urls, session.user, now)
                 stored == insert_one(reviews_collection, review_data)
             IN  /\ reviews_collection' = stored
                 /\ Answer(req,
                           Response("add_review", 200,
                                    Json(Reported(stored[Len(stored)]))),
                           [sent EXCEPT !.inserts = 1])
                 /\ UNCHANGED session

add_review(sub, geo, failAt, now) ==
    /\ Len(reviews_collection) < MaxReviews
    /\ login_required("add_review", add_review_handler(sub, geo, failAt, now))

(***************************************************************************)
(* GET /api/geocode.                                                       *)
(***************************************************************************)
geocode_handler(args, geo) ==
    LET req == [route |-> "geocode", args |-> args]
        address == Get(args, "address", None)
        asked == [Ran EXCEPT !.geocoder = <<[query |-> Str(address), reply |-> geo]>>]
    IN  /\ IF address = None \/ address = ""
           THEN Answer(req, Response("geocode", 400,
                                     Json([error |-> "Dirección no proporcionada"])), Ran)
           ELSE IF geo.kind = "error"
           THEN Answer(req, Response("geocode", 500, Unhandled("RequestException")), asked)
           ELSE IF geo.results = <<>>
           THEN Answer(req, Response("geocode", 404,
                                     Json([error |-> "Dirección no encontrada"])), asked)
           ELSE Answer(req,
                       Response("geocode", 200,
                                Json([latitude |-> FloatOfStr(geo.results[1].lat),
                                      longitude |-> FloatOfStr(geo.results[1].lon),
                                      display_name |->
                                          Get(geo.results[1], "display_name", "")])),
                       asked)
        /\ UNCHANGED <<session, reviews_collection>>

geocode(args, geo) == login_required("geocode", geocode_handler(args, geo))

(***************************************************************************)
(* The application: any request, at any time.  The identity provider's     *)
(* replies and the submissions are drawn from the sets given.              *)
(***************************************************************************)
Next(replies, submissions) ==
    \/ index
    \/ login
    \/ \E reply \in replies : authorize(reply)
    \/ logout
    \/ reviews
    \/ create_review
    \/ \E review_id \in ReviewIds : review_detail(review_id)
    \/ get_reviews
    \/ \E sub \in submissions, geo \in GeocoderReplies, failAt \in 0..MaxFiles,
          now \in Clock : add_review(sub, geo, failAt, now)
    \/ \E args \in GeocodeArgs, geo \in GeocoderReplies : geocode(args, geo)

\* Every reply of the identity provider, two users; plain submissions.
Spec == Init /\ [][Next(ProviderReplies, PlainSubmissions)]_vars

\* One user; every form.
SpecForms == Init /\ [][Next(AliceReplies, FormSubmissions)]_vars

\* One user; every list of files.
SpecFiles == Init /\ [][Next(AliceReplies, FileSubmissions)]_vars

(***************************************************************************)
(* Properties.  A primed variable describes the request a step answers,    *)
(* an unprimed reviews_collection or session the state it arrived in.      *)
(***************************************************************************)
GatedRoutes == {"reviews", "review_detail", "create_review",
                "get_reviews", "add_review", "geocode"}

ClientErrors == 400..499

\* The handler of route r ran for the request the state records.
Handled(r, req, eff) == req.route = r /\ eff.handler

\* The geocoder was asked and returned zero matches / at least one match.
ZeroMatches(eff) ==
    /\ eff.geocoder # <<>>
    /\ eff.geocoder[1].reply.kind = "json"
    /\ eff.geocoder[1].reply.results = <<>>

Geocoded(eff) ==
    /\ eff.geocoder # <<>>
    /\ eff.geocoder[1].reply.kind = "json"
    /\ eff.geocoder[1].reply.results # <<>>

\* The files of a submission that are images (not empty file inputs).
Attached(files) == SelectSeq(files, Truthy)

\* C1: a submission with a session for which the geocoder returns zero
\* matches is answered 404 with an error message, the collection is left as
\* it was and nothing is sent to the media host, whatever files are attached.
C1_ZeroMatchesAbort ==
    [][(Handled("add_review", request', effects') /\ ZeroMatches(effects'))
        => /\ response'.status = 404
           /\ response'.body.kind = "json"
           /\ "error" \in DOMAIN response'.body.data
           /\ reviews_collection' = reviews_collection
           /\ effects'.uploads = <<>>
           /\ effects'.stored = <<>>
           /\ effects'.inserts = 0]_vars

\* C1's case: zero matches for a submission with two images attached, made
\* when the collection already holds a review.
C1_Witness ==
    /\ Handled("add_review", request, effects)
    /\ ZeroMatches(effects)
    /\ Len(Attached(request.files)) = 2
    /\ response.status = 404
    /\ reviews_collection # <<>>

\* C2 as claimed: GET /review/<id> with a session and a malformed id is
\* answered with a client error, never a server error, and the id is checked
\* before any lookup.
C2_MalformedIdIsClientError ==
    (Handled("review_detail", request, effects) /\ ~ObjectIdValid(request.review_id))
        => /\ response.status \in ClientErrors
           /\ response.body.kind # "exception"
           /\ effects.finds = 0

\* C3: with geocoding done and the media host failing on the k-th upload, the
\* first k-1 images are stored on the host, the k-th is the last one sent, the
\* error is propagated, nothing is deleted from the host and no review is
\* inserted.
UploadFailed(eff) == Len(eff.uploads) = Len(eff.stored) + 1

C3_UploadFailureAborts ==
    [][(Handled("add_review", request', effects') /\ Geocoded(effects')
            /\ UploadFailed(effects'))
        => LET images == Attached(request'.files)
               k == Len(effects'.uploads)
           IN  /\ k \in 1..Len(images)
               /\ effects'.stored = [i \in 1..(k - 1) |-> images[i].content]
               /\ effects'.uploads = SubSeq(images, 1, k)
               /\ response'.status = 500
               /\ response'.body.kind = "exception"
               /\ effects'.destroyed = <<>>
               /\ effects'.inserts = 0
               /\ reviews_collection' = reviews_collection]_vars

\* C3's case: two images attached, the second upload fails, the first is on
\* the host and the collection holds only what it held before.
C3_Witness ==
    /\ Handled("add_review", request, effects)
    /\ Geocoded(effects)
    /\ Len(Attached(request.files)) = 2
    /\ Len(effects.uploads) = 2
    /\ effects.stored = <<File(1).content>>
    /\ response.status = 500

\* C4 as claimed: a submission with a session that lacks a required field is
\* rejected, so it is not answered as a success and inserts nothing, and no
\* review in the collection has a null establishment name or address.
C4_MissingFieldRejected ==
    /\ (Handled("add_review", request, effects)
            /\ ~(FormFields \subseteq DOMAIN request.form))
        => (response.status # 200 /\ effects.inserts = 0)
    /\ \A i \in 1..Len(reviews_collection) :
        /\ reviews_collection[i].establishment_name # None
        /\ reviews_collection[i].address # None

\* C5 as claimed: an absent or invalid rating becomes 0 and the handler goes
\* on with an integer rating: the coercion never ends the request, so the
\* geocoder is always asked.
C5_RatingCoercionNeverFails ==
    Handled("add_review", request, effects)
        => /\ effects.geocoder # <<>>
           /\ ~(response.status = 500 /\ response.body.error = "ValueError")

\* C6: without a user in the session a request to a gated route is answered
\* with a redirect to "/" and its handler is not run: no geocoder call, no
\* upload, no read of the collection, no insert.  A user enters the session
\* only by an /authorize that succeeds, and /logout leaves none.
C6_GatedWithoutSession ==
    [][/\ (request'.route \in GatedRoutes /\ ~LoggedIn(session))
            => /\ response'.status = 302
               /\ response'.body = Redirect("/")
               /\ effects' = NoEffects
               /\ reviews_collection' = reviews_collection
               /\ ~LoggedIn(session')
       /\ (LoggedIn(session') /\ ~LoggedIn(session))
            => (request'.route = "authorize" /\ response'.body = Redirect("/reviews"))
       /\ (request'.route = "logout") => ~LoggedIn(session')
       /\ (request'.route \in GatedRoutes /\ effects'.handler) => LoggedIn(session)]_vars

\* C6's case: a submission refused after a logout, with a review in the
\* collection from before.
C6_Witness ==
    /\ request.route = "add_review"
    /\ ~LoggedIn(session)
    /\ response.body = Redirect("/")
    /\ reviews_collection # <<>>

\* C7: every review of an API response (the elements of GET /api/reviews, the
\* object of a successful POST /api/reviews) has the key 'id', the string form
\* of the document's identifier, and never the key '_id'.
IdKeys(review) == DOMAIN review \cap {"id", "_id"}

NormalizedAs(review, doc) ==
    /\ IdKeys(review) = {"id"}
    /\ review.id = StrOfObjectId(doc["_id"])
    /\ ObjectIdValid(review.id)
    /\ ObjectIdOfStr(review.id) = doc["_id"]

C7_OnlyPlainId ==
    /\ (request.route = "get_reviews" /\ response.status = 200)
        => /\ Len(response.body.data) = Len(reviews_collection)
           /\ \A i \in 1..Len(reviews_collection) :
                NormalizedAs(response.body.data[i], reviews_collection[i])
    /\ (request.route = "add_review" /\ response.status = 200)
        => NormalizedAs(response.body.data,
                        reviews_collection[Len(reviews_collection)])

\* C7's case: the list of a collection of two reviews.
C7_Witness ==
    /\ request.route = "get_reviews"
    /\ response.status = 200
    /\ Len(response.body.data) = 2

\* C8: a submission with a session, a geocoded address and no failing upload
\* inserts exactly one document, whose identifier no earlier document has, and
\* reports and stores as images the URLs of the attached images, in the order
\* of the input.
UrlsOf(files) == [i \in 1..Len(Attached(files)) |-> upload(Attached(files)[i]).secure_url]

C8_SuccessfulSubmission ==
    [][(Handled("add_review", request', effects') /\ Geocoded(effects')
            /\ ~UploadFailed(effects'))
        => LET n == Len(reviews_collection)
               doc == reviews_collection'[n + 1]
           IN  /\ response'.status = 200
               /\ Len(reviews_collection') = n + 1
               /\ SubSeq(reviews_collection', 1, n) = reviews_collection
               /\ effects'.inserts = 1
               /\ \A i \in 1..n : reviews_collection[i]["_id"] # doc["_id"]
               /\ \A i \in 1..n : StrOfObjectId(reviews_collection[i]["_id"])
                                    # response'.body.data.id
               /\ doc.images = UrlsOf(request'.files)
               /\ response'.body.data.images = UrlsOf(request'.files)]_vars

\* C8's case: a second review, submitted with two images.
C8_Witness ==
    /\ request.route = "add_review"
    /\ response.status = 200
    /\ Len(reviews_collection) = 2
    /\ Len(Attached(request.files)) = 2
    /\ Len(reviews_collection[2].images) = 2

\* C9: a document once in the collection stays, unchanged, over every request;
\* the reads leave the collection as it is and the only change a request makes
\* is the one insert of a successful submission.
C9_ReviewsImmutable ==
    [][/\ Len(reviews_collection') >= Len(reviews_collection)
       /\ \A i \in 1..Len(reviews_collection) :
            reviews_collection'[i] = reviews_collection[i]
       /\ (request'.route \in {"get_reviews", "review_detail", "geocode"})
            => reviews_collection' = reviews_collection
       /\ (reviews_collection' # reviews_collection)
            => /\ request'.route = "add_review"
               /\ response'.status = 200
               /\ Len(reviews_collection') = Len(reviews_collection) + 1]_vars

\* C9's case: a review by Alice, listed in Bob's session.
C9_Witness ==
    /\ request.route = "get_reviews"
    /\ response.status = 200
    /\ LoggedIn(session)
    /\ session.user.email = "bob@example.com"
    /\ \E i \in 1..Len(reviews_collection) :
        /\ reviews_collection[i].author_email = "alice@example.com"
        /\ reviews_collection[i].token = "token-alice"

\* C10 as claimed: when the exchange fails or the profile is missing or has no
\* email, /authorize sends the user back to login and the session is as it
\* was.
C10_FailedLoginRedirects ==
    [][(request'.route = "authorize" /\ AuthorizeError(request'.reply) # "")
        => /\ response'.body.kind = "redirect"
           /\ response'.body.location \in {"/login", "/"}
           /\ session' = session]_vars

====
